---------------------------- MODULE Spec2Model ----------------------------
(***************************************************************************)
(* Finance AI: the message interpreter (src/engine/parse.py), the          *)
(* persistence layer (src/engine/data_io.py) and the confirmation workflow *)
(* of the dashboard (src/app.py), as one state machine.                    *)
(*                                                                         *)
(* Texts are TLA+ strings, read character by character with SubSeq.        *)
(* Dates are proleptic Gregorian ordinals (datetime.date.toordinal()).     *)
(* Amounts are integers counted in centavos (1/100 of the float the code   *)
(* computes).  Python's None is "None" where the value is a string,        *)
(* NoValue where it is an amount and NoTx where it is a pending record.    *)
(***************************************************************************)
EXTENDS Integers, Sequences, FiniteSets, TLC

None == "None"

\* _parse_valor's None: no amount found (amounts themselves are >= 0).
NoValue == -1

\* st.session_state.pending_tx = None
NoTx == <<>>

(***************************************************************************)
(* Characters and strings (Python str, re)                                 *)
(***************************************************************************)

Digits == {"0", "1", "2", "3", "4", "5", "6", "7", "8", "9"}

LowerLetters ==
    {"a", "b", "c", "d", "e", "f", "g", "h", "i", "j", "k", "l", "m", "n", "o", "p",
     "q", "r", "s", "t", "u", "v", "w", "x", "y", "z",
     "ç", "ã", "á", "â", "é", "ê", "í", "ó", "ô", "õ", "ú", "º"}

UpperLetters ==
    {"A", "B", "C", "D", "E", "F", "G", "H", "I", "J", "K", "L", "M", "N", "O", "P",
     "Q", "R", "S", "T", "U", "V", "W", "X", "Y", "Z",
     "Ç", "Ã", "Á", "Â", "É", "Ê", "Í", "Ó", "Ô", "Õ", "Ú"}

\* str.lower() on one character.
LowerCh(c) ==
    CASE c = "A" -> "a" [] c = "B" -> "b" [] c = "C" -> "c" [] c = "D" -> "d"
      [] c = "E" -> "e" [] c = "F" -> "f" [] c = "G" -> "g" [] c = "H" -> "h"
      [] c = "I" -> "i" [] c = "J" -> "j" [] c = "K" -> "k" [] c = "L" -> "l"
      [] c = "M" -> "m" [] c = "N" -> "n" [] c = "O" -> "o" [] c = "P" -> "p"
      [] c = "Q" -> "q" [] c = "R" -> "r" [] c = "S" -> "s" [] c = "T" -> "t"
      [] c = "U" -> "u" [] c = "V" -> "v" [] c = "W" -> "w" [] c = "X" -> "x"
      [] c = "Y" -> "y" [] c = "Z" -> "z"
      [] c = "Ç" -> "ç" [] c = "Ã" -> "ã" [] c = "Á" -> "á" [] c = "Â" -> "â"
      [] c = "É" -> "é" [] c = "Ê" -> "ê" [] c = "Í" -> "í" [] c = "Ó" -> "ó"
      [] c = "Ô" -> "ô" [] c = "Õ" -> "õ" [] c = "Ú" -> "ú"
      [] OTHER -> c

\* The character of s at position i (1-based), "" outside the string.
Ch(s, i) == IF i >= 1 /\ i <= Len(s) THEN SubSeq(s, i, i) ELSE ""

IsDigit(c) == c \in Digits

\* \w of Python's re on str: letters, digits and the underscore.
IsWordCh(c) == c \in Digits \cup LowerLetters \cup UpperLetters \cup {"_"}

\* \s of Python's re.
IsSpace(c) == c \in {" ", "\t", "\n"}

\* \b between position p and p+1 of s (p in 0..Len(s)).
WordBoundary(s, p) == IsWordCh(Ch(s, p)) # IsWordCh(Ch(s, p + 1))

\* s[i:i+len(k)] == k
StartsAt(s, i, k) ==
    /\ i >= 1
    /\ i + Len(k) - 1 <= Len(s)
    /\ SubSeq(s, i, i + Len(k) - 1) = k

\* Python's  k in s  on strings.
Contains(s, k) == \E i \in 1..(Len(s) - Len(k) + 1) : StartsAt(s, i, k)

\* re.search(r"\b<lit>\b", s) for a literal that starts and ends with a word
\* character.
SearchWord(s, lit) ==
    \E i \in 1..(Len(s) - Len(lit) + 1) :
        /\ StartsAt(s, i, lit)
        /\ WordBoundary(s, i - 1)
        /\ WordBoundary(s, i + Len(lit) - 1)

RECURSIVE lower(_)
lower(s) == IF s = "" THEN "" ELSE LowerCh(Head(s)) \o lower(Tail(s))

RECURSIVE lstrip(_)
lstrip(s) == IF s # "" /\ IsSpace(Head(s)) THEN lstrip(Tail(s)) ELSE s

RECURSIVE rstrip(_)
rstrip(s) ==
    IF s # "" /\ IsSpace(Ch(s, Len(s))) THEN rstrip(SubSeq(s, 1, Len(s) - 1)) ELSE s

strip(s) == rstrip(lstrip(s))

\* str.replace(old, new): the non-overlapping occurrences, left to right.
RECURSIVE replace(_, _, _)
replace(s, old, new) ==
    IF s = "" THEN ""
    ELSE IF StartsAt(s, 1, old)
         THEN new \o replace(SubSeq(s, Len(old) + 1, Len(s)), old, new)
         ELSE Head(s) \o replace(Tail(s), old, new)

\* The first position at or after i that holds no character of the class:
\* where a greedy run  [class]*  started at i ends.
RECURSIVE RunEnd(_, _, _)
RunEnd(s, i, class) ==
    IF i <= Len(s) /\ Ch(s, i) \in class THEN RunEnd(s, i + 1, class) ELSE i

DigitVal(c) ==
    CASE c = "0" -> 0 [] c = "1" -> 1 [] c = "2" -> 2 [] c = "3" -> 3 [] c = "4" -> 4
      [] c = "5" -> 5 [] c = "6" -> 6 [] c = "7" -> 7 [] c = "8" -> 8 [] c = "9" -> 9

\* int(s) for a string of decimal digits ("" counts as 0).
RECURSIVE StrToNat(_)
StrToNat(s) ==
    IF s = "" THEN 0
    ELSE 10 * StrToNat(SubSeq(s, 1, Len(s) - 1)) + DigitVal(Ch(s, Len(s)))

RECURSIVE Pow10(_)
Pow10(n) == IF n = 0 THEN 1 ELSE 10 * Pow10(n - 1)

\* The least element of a non-empty set of integers.
MinOf(S) == CHOOSE x \in S : \A y \in S : x <= y

(***************************************************************************)
(* datetime.date, as the interpreter and the dashboard use it              *)
(***************************************************************************)

IsLeap(y) == (y % 4 = 0 /\ y % 100 # 0) \/ y % 400 = 0

DaysInMonth(y, m) ==
    IF m = 2 THEN (IF IsLeap(y) THEN 29 ELSE 28)
    ELSE IF m \in {4, 6, 9, 11} THEN 30 ELSE 31

\* Days before 1 January of year y.
DaysBeforeYear(y) ==
    LET p == y - 1 IN p * 365 + (p \div 4) - (p \div 100) + (p \div 400)

\* Days of year y before the first day of month m.
RECURSIVE DaysBeforeMonth(_, _)
DaysBeforeMonth(y, m) ==
    IF m = 1 THEN 0 ELSE DaysBeforeMonth(y, m - 1) + DaysInMonth(y, m - 1)

\* Whether date(y, m, d) returns; it raises ValueError otherwise (years run
\* from datetime.MINYEAR = 1 to datetime.MAXYEAR = 9999).
ValidDate(y, m, d) ==
    /\ y \in 1..9999
    /\ m \in 1..12
    /\ d \in 1..DaysInMonth(y, m)

\* date(y, m, d).toordinal()
Ordinal(y, m, d) == DaysBeforeYear(y) + DaysBeforeMonth(y, m) + d

\* date.fromordinal(n).year, .month, .day
YearOf(n) ==
    CHOOSE y \in (n \div 366)..((n \div 365) + 1) :
        DaysBeforeYear(y) < n /\ n <= DaysBeforeYear(y + 1)

MonthOf(n) ==
    LET y == YearOf(n)
        r == n - DaysBeforeYear(y)
    IN  CHOOSE m \in 1..12 :
            DaysBeforeMonth(y, m) < r /\ r <= DaysBeforeMonth(y, m) + DaysInMonth(y, m)

DayOf(n) ==
    LET y == YearOf(n) IN n - DaysBeforeYear(y) - DaysBeforeMonth(y, MonthOf(n))

\* date.weekday(): Monday is 0.
weekday(n) == (n + 6) % 7

(***************************************************************************)
(* src/engine/parse.py                                                     *)
(***************************************************************************)

\* Keyword -> label of the expense table, in insertion order (a dict keeps it).
CATEGORIAS_GASTOS ==
    << <<"mercado", "Mercado">>, <<"supermercado", "Mercado">>, <<"feira", "Mercado">>,
       <<"restaurante", "Alimentação Fora">>, <<"lanche", "Alimentação Fora">>,
       <<"pizza", "Alimentação Fora">>, <<"ifood", "Alimentação Fora">>,
       <<"ubereats", "Alimentação Fora">>, <<"aluguel", "Moradia">>,
       <<"condominio", "Moradia">>, <<"condomínio", "Moradia">>, <<"luz", "Contas">>,
       <<"energia", "Contas">>, <<"água", "Contas">>, <<"agua", "Contas">>,
       <<"gás", "Contas">>, <<"gas", "Contas">>, <<"internet", "Contas">>,
       <<"telefone", "Contas">>, <<"celular", "Contas">>,
       <<"transporte", "Transporte">>, <<"uber", "Transporte">>,
       <<"99", "Transporte">>, <<"taxi", "Transporte">>, <<"táxi", "Transporte">>,
       <<"gasolina", "Transporte">>, <<"combustível", "Transporte">>,
       <<"combustivel", "Transporte">>, <<"estacionamento", "Transporte">>,
       <<"farmácia", "Saúde">>, <<"farmacia", "Saúde">>, <<"plano de saúde", "Saúde">>,
       <<"dentista", "Saúde">>, <<"curso", "Educação">>, <<"faculdade", "Educação">>,
       <<"escola", "Educação">>, <<"livro", "Educação">>, <<"cinema", "Lazer">>,
       <<"show", "Lazer">>, <<"viagem", "Viagens">>, <<"hotel", "Viagens">>,
       <<"passagem", "Viagens">>, <<"mercado livre", "Casa">>, <<"magalu", "Casa">>,
       <<"amazon", "Casa">>, <<"mobiliário", "Casa">>, <<"mobiliario", "Casa">>,
       <<"roupa", "Pessoais">>, <<"roupas", "Pessoais">>, <<"sapato", "Pessoais">>,
       <<"barbearia", "Pessoais">>, <<"imposto", "Impostos">>, <<"taxa", "Taxas">>,
       <<"banco", "Taxas">>, <<"tarifa", "Taxas">> >>

\* Keyword -> label of the income table.
CATEGORIAS_GANHOS ==
    << <<"salário", "Salário">>, <<"salario", "Salário">>, <<"13º", "Salário">>,
       <<"férias", "Salário">>, <<"ferias", "Salário">>, <<"freela", "Freelance">>,
       <<"freelancer", "Freelance">>, <<"bico", "Freelance">>, <<"bônus", "Bônus">>,
       <<"bonus", "Bônus">>, <<"comissão", "Comissões">>, <<"comissao", "Comissões">>,
       <<"aluguel recebido", "Aluguel">>, <<"aluguel", "Aluguel">>,
       <<"venda", "Venda de Itens">>, <<"vendi", "Venda de Itens">>,
       <<"juros", "Rendimentos">>, <<"rendimentos", "Rendimentos">>,
       <<"dividendos", "Rendimentos">>, <<"presente", "Presentes/Doações">>,
       <<"presente recebido", "Presentes/Doações">>, <<"doação", "Presentes/Doações">>,
       <<"doacao", "Presentes/Doações">>, <<"prêmio", "Prêmios">>,
       <<"premio", "Prêmios">> >>

\* Keyword -> label of the investment table.
CATEGORIAS_INVEST ==
    << <<"cdb", "CDB">>, <<"tesouro", "Tesouro">>, <<"poupança", "Poupança">>,
       <<"poupanca", "Poupança">>, <<"fundo", "Fundos">>,
       <<"fii", "Fundos Imobiliários">>, <<"ações", "Ações">>, <<"acoes", "Ações">>,
       <<"acao", "Ações">>, <<"pix", "Reserva/Pix">>, <<"cripto", "Cripto">>,
       <<"bitcoin", "Cripto">> >>

\* Month name -> month number.
MESES ==
    << <<"jan", 1>>, <<"janeiro", 1>>, <<"fev", 2>>, <<"fevereiro", 2>>,
       <<"mar", 3>>, <<"março", 3>>, <<"marco", 3>>, <<"abr", 4>>,
       <<"abril", 4>>, <<"mai", 5>>, <<"maio", 5>>, <<"jun", 6>>,
       <<"junho", 6>>, <<"jul", 7>>, <<"julho", 7>>, <<"ago", 8>>,
       <<"agosto", 8>>, <<"set", 9>>, <<"setembro", 9>>, <<"out", 10>>,
       <<"outubro", 10>>, <<"nov", 11>>, <<"novembro", 11>>, <<"dez", 12>>,
       <<"dezembro", 12>> >>

VERBOS_GASTO ==
    <<"gastei", "paguei", "pagar", "comprei", "comprar", "saquei", "retirei", "retiro">>

VERBOS_GANHO ==
    <<"recebi", "ganhei", "entrou", "caiu", "depositaram", "pague", "pagaram">>

VERBOS_INVEST ==
    <<"investi", "apliquei", "aportei", "aportar", "comprar ações", "comprei ações",
      "apliquei em">>

\* MESES.get(nome), with 0 for the None of a missing key: the caller only tests
\* the result for truth (if mo:).
MESES_get(nome) ==
    IF \E i \in 1..Len(MESES) : MESES[i][1] = nome
    THEN MESES[CHOOSE i \in 1..Len(MESES) : MESES[i][1] = nome][2]
    ELSE 0

\* {**a, **b}: a key of b that a has keeps a's place and takes b's value, the
\* other keys of b follow in b's order.
RECURSIVE DictMerge(_, _)
DictMerge(a, b) ==
    IF b = <<>> THEN a
    ELSE LET k == Head(b)[1]
             v == Head(b)[2]
             a2 == IF \E i \in 1..Len(a) : a[i][1] = k
                   THEN [i \in 1..Len(a) |-> IF a[i][1] = k THEN <<k, v>> ELSE a[i]]
                   ELSE Append(a, <<k, v>>)
         IN  DictMerge(a2, Tail(b))

\* for k, v in d.items(): if k in tl: return v   -- the label of the first
\* keyword of d that occurs in tl, None when the loop ends without a return.
FirstKeyword(d, tl) ==
    IF \E i \in 1..Len(d) : Contains(tl, d[i][1])
    THEN d[MinOf({i \in 1..Len(d) : Contains(tl, d[i][1])})][2]
    ELSE None

\* Where  \b(\d+(?:[\.,]\d+)?)\s*<suffix>\b  matches from position i, and the
\* end of group 1.  Every repetition is followed by a character outside its
\* class, so each greedy run is the only way to match.
NumSuffixGroupEnd(t, i) ==
    LET e1 == RunEnd(t, i, Digits)
    IN  IF Ch(t, e1) \in {".", ","} /\ IsDigit(Ch(t, e1 + 1))
        THEN RunEnd(t, e1 + 1, Digits)
        ELSE e1

NumSuffixMatchAt(t, i, suffix) ==
    /\ IsDigit(Ch(t, i))
    /\ WordBoundary(t, i - 1)
    /\ LET e3 == RunEnd(t, NumSuffixGroupEnd(t, i), {" ", "\t", "\n"})
       IN  StartsAt(t, e3, suffix) /\ WordBoundary(t, e3 + Len(suffix) - 1)

\* float(num) * 1000 in centavos, num = group.replace('.', '').replace(',', '.')
\* (exact for up to five digits after the comma).
ThousandsToCents(g) ==
    LET e1 == RunEnd(g, 1, Digits)
        int == SubSeq(g, 1, e1 - 1)
        frac == SubSeq(g, e1 + 1, Len(g))
    IN  IF Ch(g, e1) = ","
        THEN ((StrToNat(int) * Pow10(Len(frac)) + StrToNat(frac)) * 100000)
                 \div Pow10(Len(frac))
        ELSE StrToNat(int \o frac) * 100000

\* DECIMAL_RE = (?<!\d)(?:r\$\s*)?([\d\.]+\,\d{1,2}|\d+)(?!\d) from position i.
\* _parse_valor replaces every "r$" by a space before it searches, so the
\* optional prefix never takes part.  First alternative: the whole run of
\* digits and dots, a comma, one or two digits and no third.
DecimalAlt1At(t, i) ==
    LET e1 == RunEnd(t, i, Digits \cup {"."})
        n == RunEnd(t, e1 + 1, Digits) - (e1 + 1)
    IN  e1 > i /\ Ch(t, e1) = "," /\ n \in {1, 2}

DecimalMatchAt(t, i) ==
    /\ ~IsDigit(Ch(t, i - 1))
    /\ (DecimalAlt1At(t, i) \/ IsDigit(Ch(t, i)))

\* float(raw2) in centavos for the group matched at i.
DecimalToCents(t, i) ==
    IF DecimalAlt1At(t, i)
    THEN LET e1 == RunEnd(t, i, Digits \cup {"."})
             e2 == RunEnd(t, e1 + 1, Digits)
             int == replace(SubSeq(t, i, e1 - 1), ".", "")
             frac == SubSeq(t, e1 + 1, e2 - 1)
         IN  StrToNat(int) * 100 + (IF Len(frac) = 1 THEN 10 ELSE 1) * StrToNat(frac)
    ELSE StrToNat(SubSeq(t, i, RunEnd(t, i, Digits) - 1)) * 100

_parse_valor(texto) ==
    LET t == replace(lower(texto), "r$", " ")
        ks == {i \in 1..Len(t) : NumSuffixMatchAt(t, i, "k")}
        mils == {i \in 1..Len(t) : NumSuffixMatchAt(t, i, "mil")}
        ms == {i \in 1..Len(t) : DecimalMatchAt(t, i)}
    IN  IF ks # {}
        THEN LET i == MinOf(ks)
             IN  ThousandsToCents(SubSeq(t, i, NumSuffixGroupEnd(t, i) - 1))
        ELSE IF mils # {}
        THEN LET i == MinOf(mils)
             IN  ThousandsToCents(SubSeq(t, i, NumSuffixGroupEnd(t, i) - 1))
        ELSE IF ms = {} THEN NoValue
        ELSE DecimalToCents(t, MinOf(ms))

_detect_tipo(t) ==
    LET tl == lower(t)
    IN  IF \E i \in 1..Len(VERBOS_GASTO) : Contains(tl, VERBOS_GASTO[i]) THEN "gasto"
        ELSE IF \E i \in 1..Len(VERBOS_GANHO) : Contains(tl, VERBOS_GANHO[i]) THEN "ganho"
        ELSE IF \E i \in 1..Len(VERBOS_INVEST) : Contains(tl, VERBOS_INVEST[i])
        THEN "investimento"
        ELSE IF \E i \in 1..Len(tl) :
                    /\ Ch(tl, i) = "-"
                    /\ \/ IsDigit(Ch(tl, i + 1))
                       \/ IsSpace(Ch(tl, i + 1)) /\ IsDigit(Ch(tl, i + 2))
        THEN "gasto"
        ELSE "ganho"

\* {**CATEGORIAS_GASTOS, **CATEGORIAS_GANHOS, **CATEGORIAS_INVEST}
CATEGORIAS_TODAS ==
    DictMerge(DictMerge(CATEGORIAS_GASTOS, CATEGORIAS_GANHOS), CATEGORIAS_INVEST)

_detect_categoria(t, tipo) ==
    LET tl == lower(t)
        own == IF tipo = "gasto" THEN FirstKeyword(CATEGORIAS_GASTOS, tl)
               ELSE IF tipo = "ganho" THEN FirstKeyword(CATEGORIAS_GANHOS, tl)
               ELSE IF tipo = "investimento" THEN FirstKeyword(CATEGORIAS_INVEST, tl)
               ELSE None
        all == FirstKeyword(CATEGORIAS_TODAS, tl)
    IN  IF own # None THEN own
        ELSE IF all # None THEN all
        ELSE "outros"

\* Whether s holds n digits from position i on.
AllDigits(s, i, n) == \A j \in i..(i + n - 1) : IsDigit(Ch(s, j))

\* The outcome of date(y, m, d): the date, or ValueError raised.
MakeDate(y, m, d) ==
    IF ValidDate(y, m, d)
    THEN [raised |-> FALSE, date |-> Ordinal(y, m, d)]
    ELSE [raised |-> TRUE, date |-> 0]

\* DATE_SLASH_RE = \b(\d{1,2})\/(\d{1,2})(?:\/(\d{2,4}))?\b from position i: the
\* ways <<n1, n2, n3>> to split it into digit groups (n3 = 0: no year group).
SlashMatchesAt(t, i) ==
    {w \in {1, 2} \X {1, 2} \X {0, 2, 3, 4} :
        LET n1 == w[1]
            n2 == w[2]
            n3 == w[3]
            e2 == i + n1 + n2      \* the last digit of group 2
        IN  /\ WordBoundary(t, i - 1)
            /\ AllDigits(t, i, n1)
            /\ Ch(t, i + n1) = "/"
            /\ AllDigits(t, i + n1 + 1, n2)
            /\ IF n3 = 0 THEN WordBoundary(t, e2)
               ELSE /\ Ch(t, e2 + 1) = "/"
                    /\ AllDigits(t, e2 + 2, n3)
                    /\ WordBoundary(t, e2 + 1 + n3)}

\* The split the regex engine finds first: each group as long as it can be,
\* the earlier group first.
SlashFirstMatch(t, i) ==
    CHOOSE w \in SlashMatchesAt(t, i) :
        \A v \in SlashMatchesAt(t, i) :
            w[1] * 100 + w[2] * 10 + w[3] >= v[1] * 100 + v[2] * 10 + v[3]

\* DAY_ONLY_RE = \bdia\s+(\d{1,2})\b from position i: the number of digits of
\* the group, 0 when there is no match.
DayOnlyDigitsAt(t, i) ==
    LET e == RunEnd(t, i + 3, {" ", "\t", "\n"})
    IN  IF ~(StartsAt(t, i, "dia") /\ WordBoundary(t, i - 1) /\ e > i + 3) THEN 0
        ELSE IF AllDigits(t, e, 2) /\ WordBoundary(t, e + 1) THEN 2
        ELSE IF AllDigits(t, e, 1) /\ WordBoundary(t, e) THEN 1
        ELSE 0

\* MESES_RE = \b(\d{1,2})\s+de\s+([a-zçãéô]+)(?:\s+de\s+(\d{4}))?\b from position
\* i.  [matched, d, nome, y]: y is "" when the year group took no part.
MesesClass ==
    {"a", "b", "c", "d", "e", "f", "g", "h", "i", "j", "k", "l", "m", "n", "o", "p",
     "q", "r", "s", "t", "u", "v", "w", "x", "y", "z", "ç", "ã", "é", "ô"}

MesesMatchAt(t, i) ==
    LET sp == {" ", "\t", "\n"}
        n1 == RunEnd(t, i, Digits) - i
        s1 == RunEnd(t, i + n1, sp)          \* "de" starts here
        s2 == RunEnd(t, s1 + 2, sp)          \* the name starts here
        e2 == RunEnd(t, s2, MesesClass)      \* the name ends before here
        s3 == RunEnd(t, e2, sp)              \* the second "de" starts here
        s4 == RunEnd(t, s3 + 2, sp)          \* the year starts here
        head == /\ WordBoundary(t, i - 1)
                /\ n1 \in {1, 2}
                /\ s1 > i + n1
                /\ StartsAt(t, s1, "de")
                /\ s2 > s1 + 2
                /\ e2 > s2
        year == /\ s3 > e2
                /\ StartsAt(t, s3, "de")
                /\ s4 > s3 + 2
                /\ AllDigits(t, s4, 4)
                /\ WordBoundary(t, s4 + 3)
    IN  IF head /\ year
        THEN [matched |-> TRUE, d |-> SubSeq(t, i, i + n1 - 1),
              nome |-> SubSeq(t, s2, e2 - 1), y |-> SubSeq(t, s4, s4 + 3)]
        ELSE IF head /\ WordBoundary(t, e2 - 1)
        THEN [matched |-> TRUE, d |-> SubSeq(t, i, i + n1 - 1),
              nome |-> SubSeq(t, s2, e2 - 1), y |-> ""]
        ELSE [matched |-> FALSE, d |-> "", nome |-> "", y |-> ""]

\* _parse_data(texto, hoje): [raised, date].
_parse_data(texto, hoje) ==
    LET t == lower(texto)
        slash == {i \in 1..Len(t) : SlashMatchesAt(t, i) # {}}
        dias == {i \in 1..Len(t) : DayOnlyDigitsAt(t, i) > 0}
        meses == {i \in 1..Len(t) : MesesMatchAt(t, i).matched}
        dflt == [raised |-> FALSE, date |-> hoje]
    IN  IF SearchWord(t, "hoje") THEN dflt
        ELSE IF SearchWord(t, "ontem") THEN [raised |-> FALSE, date |-> hoje - 1]
        ELSE IF SearchWord(t, "anteontem") THEN [raised |-> FALSE, date |-> hoje - 2]
        ELSE IF SearchWord(t, "amanhã") \/ SearchWord(t, "amanha")
        THEN [raised |-> FALSE, date |-> hoje + 1]
        ELSE IF slash # {}
        THEN LET i == MinOf(slash)
                 w == SlashFirstMatch(t, i)
                 d == StrToNat(SubSeq(t, i, i + w[1] - 1))
                 mo == StrToNat(SubSeq(t, i + w[1] + 1, i + w[1] + w[2]))
                 yy == StrToNat(SubSeq(t, i + w[1] + w[2] + 2,
                                       i + w[1] + w[2] + 1 + w[3]))
                 y == IF w[3] = 0 THEN YearOf(hoje)
                      ELSE IF yy < 100 THEN yy + 2000 ELSE yy
             IN  MakeDate(y, mo, d)
        ELSE IF dias # {}
        THEN LET i == MinOf(dias)
                 e == RunEnd(t, i + 3, {" ", "\t", "\n"})
                 d == StrToNat(SubSeq(t, e, e + DayOnlyDigitsAt(t, i) - 1))
             IN  MakeDate(YearOf(hoje), MonthOf(hoje), d)
        ELSE IF meses # {} /\ MESES_get(MesesMatchAt(t, MinOf(meses)).nome) # 0
        THEN LET m == MesesMatchAt(t, MinOf(meses))
                 y == IF m.y # "" THEN StrToNat(m.y) ELSE YearOf(hoje)
             IN  MakeDate(y, MESES_get(m.nome), StrToNat(m.d))
        ELSE dflt

\* parse_message(texto), with date.today() = hoje: the Parsed record, or
\* ValueError raised by _parse_data.
parse_message(texto, hoje) ==
    LET tipo == _detect_tipo(texto)
        valor == _parse_valor(texto)
        data == _parse_data(texto, hoje)
    IN  [raised |-> data.raised,
         data |-> data.date,
         tipo |-> tipo,
         value |-> valor,
         categoria |-> _detect_categoria(texto, tipo),
         descricao |-> strip(texto)]

(***************************************************************************)
(* The table public.transactions and src/engine/data_io.py                 *)
(*                                                                         *)
(* A stored row is [id, user_id, data, tipo, valor, categoria, descricao,  *)
(* created_at].  The payload of an insert carries neither id nor           *)
(* created_at: the database gives every inserted row the next id and the   *)
(* time of the statement.  db = [table, next_id, now].                     *)
(***************************************************************************)

\* The five fields the application writes.
Content(r) ==
    [data |-> r.data, tipo |-> r.tipo, valor |-> r.valor,
     categoria |-> r.categoria, descricao |-> r.descricao]

\* .eq("user_id", uid)
OwnerRows(table, uid) == {r \in table : r.user_id = uid}

\* The sequences that list every element of S once.
Perms(S) ==
    {f \in [1..Cardinality(S) -> S] : \A x \in S : \E i \in 1..Cardinality(S) : f[i] = x}

\* load(): the owner's rows with .order("data", desc=False); rows of one date
\* come in an order the query does not fix.
LoadResults(table, uid) ==
    {df \in Perms(OwnerRows(table, uid)) :
        \A i, j \in 1..Len(df) : i < j => df[i].data <= df[j].data}

\* _normalize_rows(rows, user_id), one row: _to_date returns a date unchanged.
NormalizeRow(r, uid) ==
    [user_id |-> uid,
     data |-> r.data,
     tipo |-> r.tipo,
     valor |-> IF r.valor = NoValue THEN 0 ELSE r.valor,
     categoria |-> IF r.categoria = "" THEN None ELSE r.categoria,
     descricao |-> IF r.descricao = None THEN "" ELSE r.descricao]

_normalize_rows(rows, uid) == [i \in 1..Len(rows) |-> NormalizeRow(rows[i], uid)]

\* _chunked(iterable, size)
RECURSIVE _chunked(_, _)
_chunked(rows, size) ==
    IF Len(rows) = 0 THEN <<>>
    ELSE IF Len(rows) <= size THEN <<rows>>
    ELSE <<SubSeq(rows, 1, size)>> \o _chunked(SubSeq(rows, size + 1, Len(rows)), size)

\* The chunk size save and append_rows pass to _chunked.
ChunkSize == 500

\* One statement on the table: .delete().eq("user_id", uid), .delete().eq("id", id)
\* or .insert(rows).
Execute(d, stmt) ==
    IF stmt.kind = "delete_user"
    THEN [d EXCEPT !.table = {r \in d.table : r.user_id # stmt.uid}]
    ELSE IF stmt.kind = "delete_id"
    THEN [d EXCEPT !.table = {r \in d.table : r.id # stmt.id}]
    ELSE [table |-> d.table \cup
                    {[id |-> d.next_id + i - 1,
                      user_id |-> stmt.rows[i].user_id,
                      data |-> stmt.rows[i].data,
                      tipo |-> stmt.rows[i].tipo,
                      valor |-> stmt.rows[i].valor,
                      categoria |-> stmt.rows[i].categoria,
                      descricao |-> stmt.rows[i].descricao,
                      created_at |-> d.now + 1] : i \in 1..Len(stmt.rows)},
          next_id |-> d.next_id + Len(stmt.rows),
          now |-> d.now + 1]

DeleteUser(uid) == [kind |-> "delete_user", uid |-> uid, id |-> 0, rows |-> <<>>]
DeleteId(id) == [kind |-> "delete_id", uid |-> None, id |-> id, rows |-> <<>>]
Insert(rows) == [kind |-> "insert", uid |-> None, id |-> 0, rows |-> rows]

\* The first n statements of stmts, executed in order.
RECURSIVE ExecuteAll(_, _, _)
ExecuteAll(d, stmts, n) ==
    IF n = 0 THEN d
    ELSE Execute(ExecuteAll(d, stmts, n - 1), stmts[n])

\* A faulty variant of SaveStatements that inserts without deleting first; C2
\* tells it from save.
SaveStatementsAppendOnly(uid, df) ==
    LET chunks == _chunked(_normalize_rows(df, uid), ChunkSize)
    IN  [k \in 1..Len(chunks) |-> Insert(chunks[k])]

\* save(df): delete everything of the user, then insert df chunk by chunk
\* (nothing when df is empty).
SaveStatements(uid, df) ==
    LET chunks == _chunked(_normalize_rows(df, uid), ChunkSize)
    IN  <<DeleteUser(uid)>> \o [k \in 1..Len(chunks) |-> Insert(chunks[k])]

\* save(df) when statement number failAt raises (0: none does): the database
\* afterwards, the exception that leaves save, the call that raised it and the
\* number of statements that ran.
save(d, uid, df, failAt) ==
    IF uid = None
    THEN [db |-> d, raised |-> "RuntimeError", at |-> "user_id", writes |-> 0]
    ELSE LET stmts == SaveStatements(uid, df)
             n == IF failAt = 0 THEN Len(stmts) ELSE failAt - 1
         IN  [db |-> ExecuteAll(d, stmts, n),
              raised |-> IF failAt = 0 THEN "" ELSE "APIError",
              at |-> IF failAt = 0 THEN "" ELSE stmts[failAt].kind,
              writes |-> n]

\* append_rows(rows): one insert per chunk.
AppendStatements(uid, rows) ==
    LET chunks == _chunked(_normalize_rows(rows, uid), ChunkSize)
    IN  [k \in 1..Len(chunks) |-> Insert(chunks[k])]

\* delete_last(): the ids .order("created_at", desc=True).limit(1) may return.
LastIds(table, uid) ==
    {r.id : r \in {x \in OwnerRows(table, uid) :
                      \A y \in OwnerRows(table, uid) : y.created_at <= x.created_at}}

\* data_io_supabase.load(): .order("data").order("created_at"); rows equal in
\* both come in an order the query does not fix.
SbLoadResults(table, uid) ==
    {df \in Perms(OwnerRows(table, uid)) :
        \A i, j \in 1..Len(df) :
            i < j => \/ df[i].data < df[j].data
                     \/ /\ df[i].data = df[j].data
                        /\ df[i].created_at <= df[j].created_at}

\* data_io_supabase.append_row: the payload built from row.
SbPayload(row, uid) ==
    [user_id |-> uid, data |-> row.data, tipo |-> row.tipo, valor |-> row.valor,
     categoria |-> row.categoria, descricao |-> row.descricao]

(***************************************************************************)
(* src/app.py: the helpers of the dashboard                                *)
(***************************************************************************)

\* ref.replace(day=1)
FirstOfMonth(ref) == ref - DayOf(ref) + 1

\* ref.replace(day=1) + relativedelta(months=1)
FirstOfNextMonth(ref) ==
    FirstOfMonth(ref) + DaysInMonth(YearOf(ref), MonthOf(ref))

\* d + relativedelta(months=1): the same day of the next month, the year rolling
\* over after December, the day clamped to the length of the new month.
PlusOneMonth(n) ==
    LET y == YearOf(n)
        m == MonthOf(n)
        d == DayOf(n)
        y2 == IF m = 12 THEN y + 1 ELSE y
        m2 == IF m = 12 THEN 1 ELSE m + 1
        d2 == IF d > DaysInMonth(y2, m2) THEN DaysInMonth(y2, m2) ELSE d
    IN  Ordinal(y2, m2, d2)

\* A faulty variant of period_bounds whose month always ends 30 days after its
\* first day; C14 tells it from period_bounds.
period_bounds_thirty(ref, kind) ==
    IF kind = "Dia" THEN <<ref, ref>>
    ELSE IF kind = "Semana" THEN <<ref - weekday(ref), ref - weekday(ref) + 6>>
    ELSE <<FirstOfMonth(ref), FirstOfMonth(ref) + 30>>

\* period_bounds(ref, kind): <<start, end>>
period_bounds(ref, kind) ==
    IF kind = "Dia" THEN <<ref, ref>>
    ELSE IF kind = "Semana" THEN <<ref - weekday(ref), ref - weekday(ref) + 6>>
    ELSE <<FirstOfMonth(ref), PlusOneMonth(FirstOfMonth(ref)) - 1>>

\* A faulty variant of prev_period that steps a month back by 30 days; C15
\* tells it from prev_period.
prev_period_thirty(ref, kind) ==
    IF kind = "Dia" THEN ref - 1
    ELSE IF kind = "Semana" THEN ref - 7
    ELSE ref - 30

prev_period(ref, kind) ==
    IF kind = "Dia" THEN ref - 1
    ELSE IF kind = "Semana" THEN ref - 7
    ELSE FirstOfMonth(FirstOfMonth(ref) - 1)

next_period(ref, kind) ==
    IF kind = "Dia" THEN ref + 1
    ELSE IF kind = "Semana" THEN ref + 7
    ELSE FirstOfNextMonth(ref)

\* One entry of st.session_state.chat_log; saldo is the amount a reply quotes.
Entry(role, text, saldo) == [role |-> role, text |-> text, saldo |-> saldo]

\* df.loc[(month, year of dt) & (tipo == tipo), "valor"].sum()
RECURSIVE SumMonth(_, _, _)
SumMonth(df, dt, tipo) ==
    IF df = <<>> THEN 0
    ELSE SumMonth(Tail(df), dt, tipo)
         + (IF /\ MonthOf(Head(df).data) = MonthOf(dt)
               /\ YearOf(Head(df).data) = YearOf(dt)
               /\ Head(df).tipo = tipo
            THEN Head(df).valor ELSE 0)

_ctx_reply(df, saved_row) ==
    LET saldo == SumMonth(df, saved_row.data, "ganho")
                 - SumMonth(df, saved_row.data, "gasto")
    IN  IF saved_row.tipo = "gasto"
        THEN Entry("assistant", "Anotado. Esse gasto impacta seu saldo do mês para", saldo)
        ELSE IF saved_row.tipo = "ganho"
        THEN Entry("assistant", "Boa! Receita registrada. Seu saldo do mês agora é", saldo)
        ELSE Entry("assistant", "Investimento salvo. Siga aportando! Saldo do mês:", saldo)

\* df.iloc[:-1]
AllButLast(df) == SubSeq(df, 1, Len(df) - 1)

\* A faulty variant of _undo_last without the test of df.empty; C10 tells it
\* from _undo_last.
_undo_last_unguarded(d, uid) ==
    IF uid = None
    THEN {[db |-> d, raised |-> "RuntimeError", at |-> "user_id", writes |-> 0,
           chat |-> <<>>]}
    ELSE {[db |-> d, raised |-> "APIError", at |-> "load", writes |-> 0,
           chat |-> <<>>]} \cup
         UNION {
            {LET s == save(d, uid, AllButLast(df), failAt)
             IN  [db |-> s.db, raised |-> s.raised, at |-> s.at, writes |-> s.writes,
                  chat |-> IF s.raised = ""
                           THEN <<Entry("assistant", "Último lançamento removido", 0)>>
                           ELSE <<>>] :
             failAt \in 0..Len(SaveStatements(uid, AllButLast(df)))}
            : df \in LoadResults(d.table, uid)}

\* _undo_last(): every way the call can end.  [db, raised, at, writes, chat]:
\* the database afterwards, the exception that leaves the call ("" for none),
\* the call that raised it, the number of statements that wrote, the entries
\* appended to the chat log.
_undo_last(d, uid) ==
    IF uid = None
    THEN {[db |-> d, raised |-> "RuntimeError", at |-> "user_id", writes |-> 0,
           chat |-> <<>>]}
    ELSE {[db |-> d, raised |-> "APIError", at |-> "load", writes |-> 0,
           chat |-> <<>>]} \cup
         UNION {
            IF df = <<>>
            THEN {[db |-> d, raised |-> "", at |-> "", writes |-> 0,
                   chat |-> <<Entry("assistant", "Não há lançamentos para desfazer.", 0)>>]}
            ELSE {LET s == save(d, uid, AllButLast(df), failAt)
                  IN  [db |-> s.db, raised |-> s.raised, at |-> s.at, writes |-> s.writes,
                       chat |-> IF s.raised = ""
                                THEN <<Entry("assistant", "Último lançamento removido", 0)>>
                                ELSE <<>>] :
                  failAt \in 0..Len(SaveStatements(uid, AllButLast(df)))}
            : df \in LoadResults(d.table, uid)}

\* A faulty variant of SpecialCommand that recognises no command; C9 tells it
\* from _handle_special_commands.
NoSpecialCommand(msg) == ""

\* _handle_special_commands(msg): the command the message names, "" for none
\* (the function returns False).
SpecialCommand(msg) ==
    LET t == strip(lower(msg))
    IN  IF SearchWord(t, "resumo da semana") THEN "Semana"
        ELSE IF SearchWord(t, "resumo do mês") \/ SearchWord(t, "resumo deste mês")
        THEN "Mês"
        ELSE IF SearchWord(t, "saldo de hoje") \/ SearchWord(t, "resumo de hoje")
        THEN "Dia"
        ELSE IF \/ SearchWord(t, "desfazer último")
                \/ SearchWord(t, "desfazer ultima")
                \/ SearchWord(t, "desfazer última")
        THEN "desfazer"
        ELSE ""

SummaryReply(cmd) ==
    IF cmd = "Semana" THEN "Resumo da semana aplicado no dashboard."
    ELSE IF cmd = "Mês" THEN "Resumo do mês aplicado no dashboard."
    ELSE "Mostrando saldo de hoje no dashboard."

\* The dict the submit handler stores in pending_tx.
Candidate(P) ==
    [data |-> P.data, tipo |-> P.tipo, valor |-> P.value,
     categoria |-> P.categoria, descricao |-> P.descricao]

\* The confirm handler from data_io.load() to st.rerun(): every way it can end.
\* [db, raised, at, writes, ref_date, pending_tx, chat].
ConfirmOutcomes(d, uid, p, ref) ==
    {[db |-> d, raised |-> "APIError", at |-> "load", writes |-> 0, ref_date |-> ref,
      pending_tx |-> p, chat |-> <<>>]} \cup
    UNION {
        LET df2 == Append(df_atual, p)
            n == Len(SaveStatements(uid, df2))
        IN  {LET s == save(d, uid, df2, failAt)
             IN  [db |-> s.db, raised |-> s.raised, at |-> s.at, writes |-> s.writes,
                  ref_date |-> ref, pending_tx |-> p, chat |-> <<>>] :
             failAt \in 1..n} \cup
            {LET s == save(d, uid, df2, 0)
             IN  [db |-> s.db, raised |-> "APIError", at |-> "reload",
                  writes |-> s.writes,
                  ref_date |-> p.data, pending_tx |-> p, chat |-> <<>>]} \cup
            {LET s == save(d, uid, df2, 0)
             IN  [db |-> s.db, raised |-> "", at |-> "", writes |-> s.writes,
                  ref_date |-> p.data, pending_tx |-> NoTx,
                  chat |-> <<_ctx_reply(DF_now, p)>>] :
             DF_now \in LoadResults(save(d, uid, df2, 0).db.table, uid)}
        : df_atual \in LoadResults(d.table, uid)}

(***************************************************************************)
(* The state machine                                                       *)
(***************************************************************************)

VARIABLES
    db,           \* the database: [table, next_id, now]
    user_id,      \* st.session_state["user_id"], None when nobody is logged in
    today,        \* date.today()
    pending_tx,   \* st.session_state.pending_tx
    ref_date,     \* st.session_state.ref_date
    period,       \* st.session_state.period
    chat_log,     \* the entries the last operation appended to chat_log
    run,          \* the last operation: [op, raised, at, writes, ret]
    arg,          \* the arguments of the function called on its own
    sessions,     \* the handlers that run side by side: each one's position and locals
    client        \* the Supabase client that _sb() caches: the token applied to it

\* What the single session of the dashboard never touches.
aux == <<arg, sessions, client>>

vars == <<db, user_id, today, pending_tx, ref_date, period, chat_log, run, aux>>

\* Bounds of the model.
MaxRows == 2
MaxId == 5
MaxNavDays == 1

\* The messages typed into the chat form.
Messages ==
    {"gastei 50 no mercado",
     "recebi 1500 de salário ontem",
     "gastei 0 no mercado",
     "paguei o aluguel",
     "gastei 20 em 31/02",
     "resumo da semana",
     "Resumo do mês 50",
     "saldo de hoje",
     "Desfazer ÚLTIMA 30"}

\* The rows a client hands to append_row.
AppendInputs == {"gastei 50 no mercado", "recebi 1500 de salário ontem"}

\* A row of another owner, in the table from the start.
OtherRow ==
    [id |-> 1, user_id |-> "u2", data |-> Ordinal(2024, 3, 14), tipo |-> "gasto",
     valor |-> 990, categoria |-> "Lazer", descricao |-> "cinema 9,90",
     created_at |-> 1]

Periods == {"Dia", "Semana", "Mês"}

\* The values date.today() takes.
Todays == {Ordinal(2024, 3, 15)}

\* parse.parse_message(msg) and _handle_special_commands(msg) of every message
\* of the model, computed once and looked up by message.
ParsedTable ==
    {[msg |-> msg, hoje |-> hoje, P |-> parse_message(msg, hoje)] :
        msg \in Messages \cup AppendInputs, hoje \in Todays}

Parsed(msg, hoje) == (CHOOSE e \in ParsedTable : e.msg = msg /\ e.hoje = hoje).P

CommandTable == {[msg |-> msg, cmd |-> SpecialCommand(msg)] : msg \in Messages}

Command(msg) == (CHOOSE e \in CommandTable : e.msg = msg).cmd

\* The rows a client hands to data_io_supabase.append_row, the row lists it
\* hands to append_rows and the frames it hands to save.
InputRows ==
    {[data |-> Ordinal(2024, 3, 15), tipo |-> "gasto", valor |-> 5000,
      categoria |-> "Mercado", descricao |-> "gastei 50 no mercado"],
     [data |-> Ordinal(2024, 3, 14), tipo |-> "ganho", valor |-> 150000,
      categoria |-> "Salário", descricao |-> "recebi 1500 de salário ontem"]}

RowBatches ==
    {<<>>} \cup {<<r>> : r \in InputRows}
           \cup {b \in InputRows \X InputRows : b[1] # b[2]}

\* What the last operation did: the exception that left it ("" for none), the
\* call that raised it, the number of statements that wrote, the value returned.
Observed(op, raised, at, writes, ret) ==
    [op |-> op, raised |-> raised, at |-> at, writes |-> writes, ret |-> ret]

\* The script of app.py runs from the top on every interaction and reaches the
\* widgets only when data_io.load() of line 218 returns.
ScriptRuns == user_id # None

\* What the model lets a save insert: the bounds on rows and ids.
RoomFor(n) ==
    /\ n <= MaxRows
    /\ db.next_id + n - 1 <= MaxId

InWindow(d) == d \in (today - MaxNavDays)..(today + MaxNavDays)

Init ==
    /\ db = [table |-> {OtherRow}, next_id |-> 2, now |-> 1]
    /\ user_id \in {None, "u1"}
    /\ today \in Todays
    /\ pending_tx = NoTx
    /\ ref_date = today
    /\ period = "Mês"
    /\ chat_log = <<>>
    /\ run = Observed("init", "", "", 0, None)
    /\ arg = None
    /\ sessions = <<>>
    /\ client = None

\* A run that ends at line 218: data_io.load() raises, for want of a user_id
\* or because the query fails.
ScriptError ==
    /\ run' = Observed("script", IF user_id = None THEN "RuntimeError" ELSE "APIError",
                       IF user_id = None THEN "user_id" ELSE "load", 0, None)
    /\ chat_log' = <<>>
    /\ UNCHANGED <<db, user_id, today, pending_tx, ref_date, period, aux>>

\* The selectbox "Período".
SelectPeriod(k) ==
    /\ ScriptRuns
    /\ k # period
    /\ period' = k
    /\ run' = Observed("select_period", "", "", 0, None)
    /\ chat_log' = <<>>
    /\ UNCHANGED <<db, user_id, today, pending_tx, ref_date, aux>>

\* The date input "Referência".
DateInput(d) ==
    /\ ScriptRuns
    /\ d # ref_date
    /\ InWindow(d)
    /\ ref_date' = d
    /\ run' = Observed("date_input", "", "", 0, None)
    /\ chat_log' = <<>>
    /\ UNCHANGED <<db, user_id, today, pending_tx, period, aux>>

\* The buttons Hoje, Esta semana, Este mês, Mês passado, Próximo mês.
QuickButton(b) ==
    /\ ScriptRuns
    /\ period' = (IF b = "Hoje" THEN "Dia" ELSE IF b = "Esta semana" THEN "Semana"
                  ELSE "Mês")
    /\ ref_date' = (IF b = "Mês passado" THEN FirstOfMonth(today) - 1
                    ELSE IF b = "Próximo mês" THEN FirstOfNextMonth(today)
                    ELSE today)
    /\ run' = Observed("quick_button", "", "", 0, None)
    /\ chat_log' = <<>>
    /\ UNCHANGED <<db, user_id, today, pending_tx, aux>>

\* The buttons Anterior and Próximo.
Anterior ==
    /\ ScriptRuns
    /\ InWindow(prev_period(ref_date, period))
    /\ ref_date' = prev_period(ref_date, period)
    /\ run' = Observed("anterior", "", "", 0, None)
    /\ chat_log' = <<>>
    /\ UNCHANGED <<db, user_id, today, pending_tx, period, aux>>

Proximo ==
    /\ ScriptRuns
    /\ InWindow(next_period(ref_date, period))
    /\ ref_date' = next_period(ref_date, period)
    /\ run' = Observed("proximo", "", "", 0, None)
    /\ chat_log' = <<>>
    /\ UNCHANGED <<db, user_id, today, pending_tx, period, aux>>

\* The chat form, submitted with a summary command.
SubmitSummary(msg) ==
    /\ ScriptRuns
    /\ Command(msg) \in {"Semana", "Mês", "Dia"}
    /\ period' = Command(msg)
    /\ ref_date' = today
    /\ chat_log' = <<Entry("user", msg, 0),
                     Entry("assistant", SummaryReply(Command(msg)), 0)>>
    /\ run' = Observed("summary", "", "", 0, None)
    /\ UNCHANGED <<db, user_id, today, pending_tx, aux>>

\* The chat form, submitted with the undo command.
SubmitUndo(msg) ==
    /\ ScriptRuns
    /\ Command(msg) = "desfazer"
    /\ RoomFor(Cardinality(OwnerRows(db.table, user_id)) - 1)
    /\ \E o \in _undo_last(db, user_id) :
          /\ db' = o.db
          /\ chat_log' = <<Entry("user", msg, 0)>> \o o.chat
          /\ run' = Observed("undo", o.raised, o.at, o.writes, None)
    /\ UNCHANGED <<user_id, today, pending_tx, ref_date, period, aux>>

\* A faulty variant of SubmitMessage without the test of P.value; C7 tells it
\* from the submit handler.
SubmitMessageUnchecked(msg) ==
    /\ ScriptRuns
    /\ Command(msg) = ""
    /\ \E P \in {Parsed(msg, today)} :
           \/ /\ P.raised
              /\ pending_tx' = pending_tx
              /\ chat_log' = <<Entry("user", msg, 0)>>
              /\ run' = Observed("message", "ValueError", "parse", 0, None)
           \/ /\ ~P.raised
              /\ pending_tx' = Candidate(P)
              /\ chat_log' = <<Entry("user", msg, 0),
                               Entry("assistant", "Vou registrar isso. Confirma abaixo?", 0)>>
              /\ run' = Observed("message", "", "", 0, None)
    /\ UNCHANGED <<db, user_id, today, ref_date, period, aux>>

\* The chat form, submitted with any other message.
SubmitMessage(msg) ==
    /\ ScriptRuns
    /\ Command(msg) = ""
    /\ \E P \in {Parsed(msg, today)} :
           \/ /\ P.raised
              /\ pending_tx' = pending_tx
              /\ chat_log' = <<Entry("user", msg, 0)>>
              /\ run' = Observed("message", "ValueError", "parse", 0, None)
           \/ /\ ~P.raised
              /\ P.value = NoValue
              /\ pending_tx' = pending_tx
              /\ chat_log' = <<Entry("user", msg, 0),
                               Entry("assistant", "Não encontrei o valor.", 0)>>
              /\ run' = Observed("message", "", "", 0, None)
           \/ /\ ~P.raised
              /\ P.value # NoValue
              /\ pending_tx' = Candidate(P)
              /\ chat_log' = <<Entry("user", msg, 0),
                               Entry("assistant", "Vou registrar isso. Confirma abaixo?", 0)>>
              /\ run' = Observed("message", "", "", 0, None)
    /\ UNCHANGED <<db, user_id, today, ref_date, period, aux>>

\* The button Confirmar, shown while pending_tx is set.
Confirm ==
    /\ ScriptRuns
    /\ pending_tx # NoTx
    /\ RoomFor(Cardinality(OwnerRows(db.table, user_id)) + 1)
    /\ \E o \in ConfirmOutcomes(db, user_id, pending_tx, ref_date) :
          /\ db' = o.db
          /\ ref_date' = o.ref_date
          /\ pending_tx' = o.pending_tx
          /\ chat_log' = o.chat
          /\ run' = Observed("confirm", o.raised, o.at, o.writes, None)
    /\ UNCHANGED <<user_id, today, period, aux>>

\* A faulty variant of Cancel that also sends the dashboard back to today; C6
\* tells it from the cancel handler.
CancelResetsReference ==
    /\ ScriptRuns
    /\ pending_tx # NoTx
    /\ pending_tx' = NoTx
    /\ ref_date' = today
    /\ chat_log' = <<Entry("assistant", "Ok, não salvei esse lançamento.", 0)>>
    /\ run' = Observed("cancel", "", "", 0, None)
    /\ UNCHANGED <<db, user_id, today, period, aux>>

\* The button Cancelar.
Cancel ==
    /\ ScriptRuns
    /\ pending_tx # NoTx
    /\ pending_tx' = NoTx
    /\ chat_log' = <<Entry("assistant", "Ok, não salvei esse lançamento.", 0)>>
    /\ run' = Observed("cancel", "", "", 0, None)
    /\ UNCHANGED <<db, user_id, today, ref_date, period, aux>>

\* data_io.append_row(row), called by a client of the module.
AppendRow(msg) ==
    /\ RoomFor(Cardinality(OwnerRows(db.table, user_id)) + 1)
    /\ \E row \in {Candidate(Parsed(msg, today))} :
           \/ /\ user_id = None
              /\ db' = db
              /\ run' = Observed("append_row", "RuntimeError", "user_id", 0, None)
           \/ /\ user_id # None
              /\ db' = db
              /\ run' = Observed("append_row", "APIError", "insert", 0, None)
           \/ /\ user_id # None
              /\ db' = Execute(db, Insert(_normalize_rows(<<row>>, user_id)))
              /\ run' = Observed("append_row", "", "", 1, "row")
    /\ chat_log' = <<>>
    /\ UNCHANGED <<user_id, today, pending_tx, ref_date, period, aux>>

\* data_io.delete_last(), called by a client of the module.
DeleteLast ==
    /\ \/ /\ user_id = None
          /\ db' = db
          /\ run' = Observed("delete_last", "RuntimeError", "user_id", 0, None)
       \/ /\ user_id # None
          /\ db' = db
          /\ run' = Observed("delete_last", "APIError", "select", 0, None)
       \/ /\ user_id # None
          /\ LastIds(db.table, user_id) = {}
          /\ db' = db
          /\ run' = Observed("delete_last", "", "", 0, "False")
       \/ /\ user_id # None
          /\ \E last_id \in LastIds(db.table, user_id) :
                \/ /\ db' = db
                   /\ run' = Observed("delete_last", "APIError", "delete_id", 0, None)
                \/ /\ db' = Execute(db, DeleteId(last_id))
                   /\ run' = Observed("delete_last", "", "", 1, "True")
    /\ chat_log' = <<>>
    /\ UNCHANGED <<user_id, today, pending_tx, ref_date, period, aux>>

\* data_io_supabase.delete_last(): no user gives False, and the except clause
\* turns every failure of the select or the delete into st.error and False.
SbDeleteLast ==
    /\ \/ /\ user_id = None
          /\ db' = db
          /\ run' = Observed("sb_delete_last", "", "", 0, "False")
       \/ /\ user_id # None
          /\ db' = db
          /\ run' = Observed("sb_delete_last", "", "select", 0, "False")
       \/ /\ user_id # None
          /\ LastIds(db.table, user_id) = {}
          /\ db' = db
          /\ run' = Observed("sb_delete_last", "", "", 0, "False")
       \/ /\ user_id # None
          /\ \E last_id \in LastIds(db.table, user_id) :
                \/ /\ db' = db
                   /\ run' = Observed("sb_delete_last", "", "delete_id", 0, "False")
                \/ /\ db' = Execute(db, DeleteId(last_id))
                   /\ run' = Observed("sb_delete_last", "", "", 1, "True")
    /\ chat_log' = <<>>
    /\ UNCHANGED <<user_id, today, pending_tx, ref_date, period, aux>>

\* data_io.load(), called by a client of the module.
Load ==
    /\ \/ /\ user_id = None
          /\ run' = Observed("load", "RuntimeError", "user_id", 0, None)
       \/ /\ user_id # None
          /\ run' = Observed("load", "APIError", "select", 0, None)
       \/ /\ user_id # None
          /\ \E df \in LoadResults(db.table, user_id) :
                run' = Observed("load", "", "", 0, df)
    /\ chat_log' = <<>>
    /\ UNCHANGED <<db, user_id, today, pending_tx, ref_date, period, aux>>

\* data_io.append_rows(rows), called by a client of the module.
AppendRows(rows) ==
    /\ RoomFor(Cardinality(OwnerRows(db.table, user_id)) + Len(rows))
    /\ \/ /\ user_id = None
          /\ db' = db
          /\ run' = Observed("append_rows", "RuntimeError", "user_id", 0, None)
       \/ /\ user_id # None
          /\ \E failAt \in 0..Len(AppendStatements(user_id, rows)) :
                \E n \in {IF failAt = 0 THEN Len(AppendStatements(user_id, rows))
                          ELSE failAt - 1} :
                   /\ db' = ExecuteAll(db, AppendStatements(user_id, rows), n)
                   /\ run' = Observed("append_rows",
                                      IF failAt = 0 THEN "" ELSE "APIError",
                                      IF failAt = 0 THEN "" ELSE "insert", n, None)
    /\ chat_log' = <<>>
    /\ UNCHANGED <<user_id, today, pending_tx, ref_date, period, aux>>

\* data_io.save(df), called by a client of the module.
SaveCall(df) ==
    /\ RoomFor(Len(df))
    /\ \E failAt \in 0..(IF user_id = None THEN 0 ELSE Len(SaveStatements(user_id, df))) :
          \E s \in {save(db, user_id, df, failAt)} :
             /\ db' = s.db
             /\ run' = Observed("save", s.raised, s.at, s.writes, None)
    /\ chat_log' = <<>>
    /\ UNCHANGED <<user_id, today, pending_tx, ref_date, period, aux>>

\* data_io_supabase.load(): no user gives an empty frame, and so does every
\* failure of the query (the except clause reports it with st.error).
SbLoad ==
    /\ \/ /\ user_id = None
          /\ run' = Observed("sb_load", "", "", 0, <<>>)
       \/ /\ user_id # None
          /\ run' = Observed("sb_load", "", "select", 0, <<>>)
       \/ /\ user_id # None
          /\ \E df \in SbLoadResults(db.table, user_id) :
                run' = Observed("sb_load", "", "", 0, df)
    /\ chat_log' = <<>>
    /\ UNCHANGED <<db, user_id, today, pending_tx, ref_date, period, aux>>

\* data_io_supabase.append_row(row): no user raises RuntimeError; a failure of
\* the insert is reported with st.error and None is returned.
SbAppendRow(row) ==
    /\ RoomFor(Cardinality(OwnerRows(db.table, user_id)) + 1)
    /\ \/ /\ user_id = None
          /\ db' = db
          /\ run' = Observed("sb_append_row", "RuntimeError", "user_id", 0, None)
       \/ /\ user_id # None
          /\ db' = db
          /\ run' = Observed("sb_append_row", "", "insert", 0, None)
       \/ /\ user_id # None
          /\ db' = Execute(db, Insert(<<SbPayload(row, user_id)>>))
          /\ run' = Observed("sb_append_row", "", "", 1, "id")
    /\ chat_log' = <<>>
    /\ UNCHANGED <<user_id, today, pending_tx, ref_date, period, aux>>

Next ==
    \/ ScriptError
    \/ \E k \in Periods : SelectPeriod(k)
    \/ \E d \in {today - 1, today + 1} : DateInput(d)
    \/ \E b \in {"Hoje", "Esta semana", "Este mês", "Mês passado", "Próximo mês"} :
          QuickButton(b)
    \/ Anterior
    \/ Proximo
    \/ \E msg \in Messages : SubmitSummary(msg)
    \/ \E msg \in Messages : SubmitUndo(msg)
    \/ \E msg \in Messages : SubmitMessage(msg)
    \/ Confirm
    \/ Cancel
    \/ \E msg \in AppendInputs : AppendRow(msg)
    \/ DeleteLast
    \/ SbDeleteLast

Spec == Init /\ [][Next]_vars

\* A client that calls the functions of the two persistence modules directly,
\* in any order, with or without a user in the session.
ApiNext ==
    \/ Load
    \/ \E msg \in AppendInputs : AppendRow(msg)
    \/ \E rows \in RowBatches : AppendRows(rows)
    \/ DeleteLast
    \/ \E df \in RowBatches : SaveCall(df)
    \/ SbLoad
    \/ \E row \in InputRows : SbAppendRow(row)
    \/ SbDeleteLast

ApiSpec == Init /\ [][ApiNext]_vars


(***************************************************************************)
(* Properties                                                              *)
(***************************************************************************)

\* The history of an owner is a multiset of contents: how many of the rows
\* carry content c.
CountIn(rows, c) == Cardinality({r \in rows : Content(r) = c})

SameHistory(rows1, rows2) ==
    \A c \in {Content(r) : r \in rows1 \cup rows2} : CountIn(rows1, c) = CountIn(rows2, c)

History == OwnerRows(db.table, user_id)

OthersRows(table, uid) == {r \in table : r.user_id # uid}

\* C1: while a candidate is pending it never changes, whatever is submitted: it
\* only goes away, and only through confirm or cancel.
C1_PendingNeverReplaced ==
    [][(pending_tx # NoTx /\ pending_tx' # pending_tx)
          => (run'.op \in {"confirm", "cancel"} /\ pending_tx' = NoTx)]_vars

\* C2: a confirm whose persistence calls all succeed leaves the owner's history
\* equal to the prior history plus exactly one transaction with the candidate's
\* date, type, amount, category and description, leaves the other owners' rows
\* alone, sets ref_date to the candidate's date and clears pending_tx.
C2_ConfirmCommitsCandidate ==
    [][(run'.op = "confirm" /\ run'.raised = "")
          => /\ pending_tx # NoTx
             /\ \A c \in {Content(r) : r \in History \cup History'} \cup {pending_tx} :
                   CountIn(History', c)
                       = CountIn(History, c) + (IF c = pending_tx THEN 1 ELSE 0)
             /\ OthersRows(db'.table, user_id) = OthersRows(db.table, user_id)
             /\ ref_date' = pending_tx.data
             /\ pending_tx' = NoTx]_vars

\* C2 happens: a confirm has succeeded on a history that already held a
\* transaction, with a candidate dated yesterday.
C2_Witness ==
    /\ run.op = "confirm"
    /\ run.raised = ""
    /\ pending_tx = NoTx
    /\ Cardinality(History) = 2
    /\ ref_date = today - 1

\* C3: a message, a summary command, a confirm or a cancel removes no stored
\* transaction of the owner and changes none of its fields, id and created_at
\* included: every row stored before is stored after.
C3_CommittedRowsUntouched ==
    [][run'.op \in {"message", "summary", "confirm", "cancel"}
          => History \subseteq History']_vars

\* C4: an undo that succeeds on a non-empty history removes exactly one
\* transaction, one with the latest created_at of the owner, and the contents
\* of all the others remain.
C4_UndoRemovesLatestCreated ==
    [][(run'.op = "undo" /\ run'.raised = "" /\ History # {})
          => \E r \in History :
                /\ \A y \in History : y.created_at <= r.created_at
                /\ SameHistory(History', History \ {r})]_vars

\* C5: a confirm that a failing persistence call ends leaves the history as it
\* was, reports the failure and clears pending_tx.
C5_FailedConfirmLeavesHistory ==
    [][(run'.op = "confirm" /\ run'.raised # "")
          => /\ SameHistory(History', History)
             /\ pending_tx' = NoTx]_vars


\* C6: cancel happens only with a candidate pending, discards it, and leaves
\* the database, the period and the reference date as they were.
C6_CancelDiscardsOnly ==
    [][run'.op = "cancel"
          => /\ pending_tx # NoTx
             /\ pending_tx' = NoTx
             /\ db' = db
             /\ period' = period
             /\ ref_date' = ref_date]_vars

\* C6 happens: a cancel has run with a transaction stored and the dashboard
\* away from its initial period and date.
C6_Witness ==
    /\ run.op = "cancel"
    /\ pending_tx = NoTx
    /\ History # {}
    /\ period = "Semana"
    /\ ref_date # today

\* C7: a message whose amount _parse_valor does not find leaves pending_tx as
\* it was and is answered with the notice, and a pending candidate always has
\* an amount.
C7_NullAmountNoCandidate ==
    [][/\ (run'.op = "message" /\ Parsed(chat_log'[1].text, today).value = NoValue)
            => /\ pending_tx' = pending_tx
               /\ run'.raised = ""
               /\ chat_log'[Len(chat_log')] = Entry("assistant", "Não encontrei o valor.", 0)
       /\ pending_tx' # NoTx => pending_tx'.valor # NoValue]_vars

\* C7 happens: a message without an amount has been answered with the notice
\* while nothing was pending.
C7_Witness ==
    /\ run.op = "message"
    /\ chat_log = <<Entry("user", "paguei o aluguel", 0),
                    Entry("assistant", "Não encontrei o valor.", 0)>>
    /\ pending_tx = NoTx

\* C8: every stored transaction has an amount above 0 and one of the three
\* types.
C8_CommittedAmountPositive ==
    \A r \in db.table : r.valor > 0 /\ r.tipo \in {"gasto", "ganho", "investimento"}

\* The messages of the model that match a pattern of _handle_special_commands,
\* and the granularity each summary command asks for.
CommandMessages ==
    {"resumo da semana", "Resumo do mês 50", "saldo de hoje", "Desfazer ÚLTIMA 30"}

AskedPeriod(msg) ==
    IF msg = "resumo da semana" THEN "Semana"
    ELSE IF msg = "Resumo do mês 50" THEN "Mês"
    ELSE IF msg = "saldo de hoje" THEN "Dia"
    ELSE ""

\* C9: a submitted message that matches a special-command pattern is not
\* interpreted and leaves pending_tx as it was; a summary command sets the
\* period to its granularity and ref_date to today and writes nothing.
C9_CommandsBypassInterpreter ==
    [][(/\ run'.op \in {"message", "summary", "undo"}
        /\ chat_log'[1].text \in CommandMessages)
          => /\ pending_tx' = pending_tx
             /\ run'.op # "message"
             /\ AskedPeriod(chat_log'[1].text) # ""
                   => /\ period' = AskedPeriod(chat_log'[1].text)
                      /\ ref_date' = today
                      /\ db' = db
                      /\ run'.op = "summary"
             /\ AskedPeriod(chat_log'[1].text) = "" => run'.op = "undo"]_vars

\* C9 happens: a summary command that carries a number has run while a
\* candidate was pending and the dashboard was on another day and period.
C9_Witness ==
    /\ run.op = "summary"
    /\ chat_log[1].text = "Resumo do mês 50"
    /\ pending_tx # NoTx
    /\ period = "Mês"
    /\ ref_date = today

\* C10: the undo command on an empty history, and delete_last of
\* data_io_supabase on an empty history, write nothing and leave the database
\* as it was; only the read can fail, and when it does not the undo answers
\* that there is nothing to undo and delete_last returns False.
C10_UndoOnEmptyIsNoOp ==
    [][History = {}
          => /\ run'.op = "undo"
                   => /\ db' = db
                      /\ run'.writes = 0
                      /\ run'.at \in {"", "load"}
                      /\ run'.raised = ""
                            => chat_log' = <<Entry("user", "Desfazer ÚLTIMA 30", 0),
                                             Entry("assistant",
                                                   "Não há lançamentos para desfazer.", 0)>>
             /\ run'.op = "sb_delete_last"
                   => /\ db' = db
                      /\ run'.writes = 0
                      /\ run'.raised = ""
                      /\ run'.ret = "False"]_vars

\* C10 happens: the undo command has run on an empty history without an error.
C10_Witness ==
    /\ run.op = "undo"
    /\ run.raised = ""
    /\ History = {}
    /\ Len(chat_log) = 2
    /\ chat_log[2].text = "Não há lançamentos para desfazer."


\* C11: with no user in the session, every call that writes (append_row,
\* append_rows, save, delete_last, of either module) refuses and writes nothing,
\* and every load returns an empty history without raising.
C11_NoOwnerRefusesOrEmpty ==
    [][user_id = None
          => /\ db' = db
             /\ run'.writes = 0
             /\ run'.op \in {"load", "sb_load"}
                   => (run'.raised = "" /\ run'.ret = <<>>)
             /\ run'.op \in {"append_row", "append_rows", "save", "delete_last",
                             "sb_append_row", "sb_delete_last"}
                   => (run'.raised # "" \/ run'.ret = "False")]_vars


\* ---------------------------------------------------------------------------
\* engine/parse.py called directly: the interpreter's functions applied to a
\* text, a classified type and a value of date.today().
\* ---------------------------------------------------------------------------

\* Texts with no date form at all: _parse_data reaches its last line.
NoDateTexts ==
    {"gastei 50 na padaria", "gastei 20 de uber", "investi 100 no aluguel",
     "recebi aluguel", "paguei aluguel", "apliquei 200 em cdb",
     "recebi pix do uber", "nada aqui", "Bônus do mercado"}

\* Texts whose date form names numbers that are not a calendar date for some
\* or every value of today.
BadDateTexts ==
    {"gastei 20 em 31/04", "paguei 10 em 05/13", "paguei 10 em 0/5",
     "paguei dia 31", "paguei dia 0", "30 de fevereiro de 2023", "29/02/23"}

GoodDateTexts ==
    {"recebi 1500 de salário 05/08", "paguei dia 10", "5 de agosto",
     "gastei 37,90 no supermercado ontem", "Uber HOJE", "29/02/24"}

ParseTexts == NoDateTexts \cup BadDateTexts \cup GoodDateTexts

ParseTipos == {"gasto", "ganho", "investimento", None}

ParseTodays == {Ordinal(2024, 3, 15), Ordinal(2024, 4, 10), Ordinal(2023, 2, 10)}

ParseInit ==
    /\ db = [table |-> {}, next_id |-> 1, now |-> 0]
    /\ user_id = None
    /\ today \in ParseTodays
    /\ pending_tx = NoTx
    /\ ref_date = today
    /\ period = "Mês"
    /\ chat_log = <<>>
    /\ run = Observed("init", "", "", 0, None)
    /\ arg \in [texto : ParseTexts, tipo : ParseTipos]
    /\ sessions = <<>>
    /\ client = None

\* _parse_data(arg.texto, today)
ParseData ==
    /\ run.op = "init"
    /\ \E r \in {_parse_data(arg.texto, today)} :
          run' = Observed("_parse_data", IF r.raised THEN "ValueError" ELSE "",
                          IF r.raised THEN "date" ELSE "", 0, r.date)
    /\ UNCHANGED <<db, user_id, today, pending_tx, ref_date, period, chat_log, aux>>

\* _detect_categoria(arg.texto, arg.tipo)
DetectCategoria ==
    /\ run.op = "init"
    /\ run' = Observed("_detect_categoria", "", "", 0,
                       _detect_categoria(arg.texto, arg.tipo))
    /\ UNCHANGED <<db, user_id, today, pending_tx, ref_date, period, chat_log, aux>>

\* parse_message(arg.texto), with date.today() = today
ParseMessage ==
    /\ run.op = "init"
    /\ \E P \in {parse_message(arg.texto, today)} :
          run' = Observed("parse_message", IF P.raised THEN "ValueError" ELSE "",
                          IF P.raised THEN "date" ELSE "", 0, P)
    /\ UNCHANGED <<db, user_id, today, pending_tx, ref_date, period, chat_log, aux>>

ParseNext ==
    \/ ParseData
    \/ DetectCategoria
    \/ ParseMessage

ParseSpec == ParseInit /\ [][ParseNext]_vars


\* ---------------------------------------------------------------------------
\* Claims about engine/parse.py (checked under ParseSpec)
\* ---------------------------------------------------------------------------

\* C12: _parse_data is total: for every text and every today it returns a date
\* and never raises, also when a slash form, a 'dia D' form or a 'D de <month>'
\* form names numbers that are no calendar date; when no rule yields a date the
\* result is today.
C12_ResolveDateTotal ==
    run.op = "_parse_data"
        => /\ run.raised = ""
           /\ arg.texto \in NoDateTexts => run.ret = today

\* The scan of the union of the three tables in which every keyword carries the
\* label of its own table.
UnionScan(tl) ==
    FirstKeyword(CATEGORIAS_GASTOS \o CATEGORIAS_GANHOS \o CATEGORIAS_INVEST, tl)

\* C13: _detect_categoria returns the label of the first keyword of the table of
\* the classified type that occurs in the lower-cased text; failing that, the
\* label of the first matching keyword of the union of the three tables, each
\* keyword with the label of its own table; failing that, 'outros'.
C13_OwnTableThenUnion ==
    run.op = "_detect_categoria"
        => LET tl == lower(arg.texto)
               own == IF arg.tipo = "gasto" THEN FirstKeyword(CATEGORIAS_GASTOS, tl)
                      ELSE IF arg.tipo = "ganho" THEN FirstKeyword(CATEGORIAS_GANHOS, tl)
                      ELSE IF arg.tipo = "investimento"
                           THEN FirstKeyword(CATEGORIAS_INVEST, tl)
                      ELSE None
           IN  run.ret = IF own # None THEN own
                         ELSE IF UnionScan(tl) # None THEN UnionScan(tl)
                         ELSE "outros"

\* C20: the verb that decides the type never decides the category: 'gastei 50
\* na padaria' gets 'outros' and 'gastei 20 de uber' gets the label of 'uber'.
C20_VerbCueNeverDecidesCategory ==
    (run.op = "parse_message" /\ run.raised = "")
        => /\ arg.texto = "gastei 50 na padaria" => run.ret.categoria = "outros"
           /\ arg.texto = "gastei 20 de uber" => run.ret.categoria = "Transporte"


\* ---------------------------------------------------------------------------
\* The period helpers of app.py applied to a reference date and a granularity:
\* st.session_state.ref_date and st.session_state.period of lines 333-341.
\* ---------------------------------------------------------------------------

\* The reference dates run from 1 December 2023 for MaxRefDays days: they cover
\* a December, the February of a leap year and the February of a common year.
MaxRefDays == 460

FirstRef == Ordinal(2023, 12, 1)

RefDates == FirstRef..(FirstRef + MaxRefDays)

PeriodInit ==
    /\ db = [table |-> {}, next_id |-> 1, now |-> 0]
    /\ user_id = None
    /\ today = FirstRef
    /\ pending_tx = NoTx
    /\ ref_date \in RefDates
    /\ period \in Periods
    /\ chat_log = <<>>
    /\ run = Observed("init", "", "", 0, None)
    /\ arg = None
    /\ sessions = <<>>
    /\ client = None

\* start, end = period_bounds(ref_date, period)
PeriodBounds ==
    /\ run.op = "init"
    /\ run' = Observed("period_bounds", "", "", 0, period_bounds(ref_date, period))
    /\ UNCHANGED <<db, user_id, today, pending_tx, ref_date, period, chat_log, aux>>

\* Lines 333-341: the current window, and the window of prev_period(ref_date,
\* period) that the deltas compare with.
KpiPeriods ==
    /\ run.op = "init"
    /\ run' = Observed("kpi", "", "", 0,
                       [cur |-> period_bounds(ref_date, period),
                        prev |-> period_bounds(prev_period(ref_date, period), period)])
    /\ UNCHANGED <<db, user_id, today, pending_tx, ref_date, period, chat_log, aux>>

PeriodNext ==
    \/ PeriodBounds
    \/ KpiPeriods

PeriodSpec == PeriodInit /\ [][PeriodNext]_vars

\* The last day of the calendar month of n, by the calendar: the day of that
\* month whose successor is a day 1.
IsLastOfMonth(n) == DayOf(n + 1) = 1

\* A whole period of the granularity: one day, a Monday-to-Sunday week, or a
\* calendar month from its day 1 to its last day.
WholePeriod(w, kind) ==
    IF kind = "Dia" THEN w[1] = w[2]
    ELSE IF kind = "Semana" THEN weekday(w[1]) = 0 /\ w[2] = w[1] + 6
    ELSE /\ DayOf(w[1]) = 1
         /\ IsLastOfMonth(w[2])
         /\ MonthOf(w[1]) = MonthOf(w[2])
         /\ YearOf(w[1]) = YearOf(w[2])

\* C14: period_bounds returns start <= end; a week starts on the Monday of the
\* reference's week and ends 6 days later; a month runs from day 1 to the last
\* calendar day of the reference's month, December and leap Februaries included;
\* a day is the reference itself.
C14_PeriodBoundsWellFormed ==
    run.op = "period_bounds"
        => LET start == run.ret[1]
               end == run.ret[2]
           IN  /\ start <= end
               /\ start <= ref_date /\ ref_date <= end
               /\ WholePeriod(run.ret, period)
               /\ period = "Dia" => start = ref_date
               /\ period = "Semana" => ref_date - start < 7

C14_Witness ==
    /\ run.op = "period_bounds"
    /\ period = "Mês"
    /\ MonthOf(ref_date) = 2
    /\ IsLeap(YearOf(ref_date))
    /\ DayOf(run.ret[2]) = 29

\* C15: the comparison window of the KPI deltas is the period just before the
\* current one: it ends the day before the current window starts and is itself
\* a whole day, Monday-to-Sunday week or calendar month.
C15_PreviousPeriodAdjacent ==
    run.op = "kpi"
        => /\ run.ret.prev[2] + 1 = run.ret.cur[1]
           /\ WholePeriod(run.ret.prev, period)

C15_Witness ==
    /\ run.op = "kpi"
    /\ period = "Mês"
    /\ MonthOf(ref_date) = 1
    /\ DayOf(ref_date) = 31
    /\ MonthOf(run.ret.prev[1]) = 12
    /\ YearOf(run.ret.prev[1]) = YearOf(ref_date) - 1


\* ---------------------------------------------------------------------------
\* The category breakdown of app.py, lines 371-394: _top_n_with_outros applied
\* to a table grouped by category.
\* ---------------------------------------------------------------------------

\* df["valor"].sum() of a sequence of rows
RECURSIVE SumValor(_)
SumValor(df) == IF df = <<>> THEN 0 ELSE Head(df).valor + SumValor(Tail(df))

\* df.sort_values("valor", ascending=False): every ordering of the rows by
\* falling valor; rows of equal valor come in any order (the sort is not stable).
RECURSIVE SortValuesDesc(_)
SortValuesDesc(S) ==
    IF S = {} THEN {<<>>}
    ELSE UNION {{<<r>> \o t : t \in SortValuesDesc(S \ {r})} :
                   r \in {x \in S : \A y \in S : y.valor <= x.valor}}

\* A faulty variant of _top_n_with_outros that keeps the first n rows and drops
\* the rest; C16 tells it from _top_n_with_outros.
_top_n_dropping_rest(df, n) ==
    {IF Len(s) <= n THEN s ELSE SubSeq(s, 1, n) :
        s \in SortValuesDesc({df[i] : i \in 1..Len(df)})}

\* _top_n_with_outros(df, n): the frames it can return.
_top_n_with_outros(df, n) ==
    {IF Len(s) <= n THEN s
     ELSE Append(SubSeq(s, 1, n),
                 [categoria |-> "Outros", valor |-> SumValor(SubSeq(s, n + 1, Len(s)))]) :
        s \in SortValuesDesc({df[i] : i \in 1..Len(df)})}

\* The n the two call sites pass.
TopN == 6

\* The categories a grouped table may hold: the first MaxCats labels.
MaxCats == 8

CategoryLabels ==
    <<"Mercado", "Alimentação Fora", "Moradia", "Contas", "Transporte", "Saúde",
      "Educação", "Lazer", "Viagens", "Casa", "Pessoais", "Impostos", "Taxas">>

\* groupby("categoria")["valor"].sum().reset_index(): one row per category that
\* occurs, in the order of the keys.  pick[i] = 0 leaves category i out; 1 and 2
\* give it the summed amounts i and i + 1 (in units of R$ 1,00), so that two
\* neighbouring categories can tie.
RECURSIVE GroupedFrom(_, _)
GroupedFrom(pick, i) ==
    IF i > MaxCats THEN <<>>
    ELSE (IF pick[i] = 0 THEN <<>>
          ELSE <<[categoria |-> CategoryLabels[i], valor |-> (i + pick[i] - 1) * 100]>>)
         \o GroupedFrom(pick, i + 1)

GroupedTables == {GroupedFrom(pick, 1) : pick \in [1..MaxCats -> 0..2]}

TopInit ==
    /\ db = [table |-> {}, next_id |-> 1, now |-> 0]
    /\ user_id = None
    /\ today \in Todays
    /\ pending_tx = NoTx
    /\ ref_date = today
    /\ period = "Mês"
    /\ chat_log = <<>>
    /\ run = Observed("init", "", "", 0, None)
    /\ arg \in GroupedTables
    /\ sessions = <<>>
    /\ client = None

\* gastos_cat = _top_n_with_outros(gastos_cat, 6), run when the table is not
\* empty (lines 383 and 393).
TopCategories ==
    /\ run.op = "init"
    /\ arg # <<>>
    /\ \E out \in _top_n_with_outros(arg, TopN) :
          run' = Observed("_top_n_with_outros", "", "", 0, out)
    /\ UNCHANGED <<db, user_id, today, pending_tx, ref_date, period, chat_log, aux>>

TopNext == TopCategories

TopSpec == TopInit /\ [][TopNext]_vars

\* Rows i..j of out are in falling order of valor.
Descending(out, i, j) == \A k \in i..(j - 1) : out[k].valor >= out[k + 1].valor

\* C16: for a grouped table of more than 6 categories, _top_n_with_outros gives
\* exactly 7 rows: 6 rows of the table, none smaller than a row left out, in
\* falling order, then a last row 'Outros' holding the sum of the rows left out;
\* for 6 categories or fewer it gives the rows of the table in falling order
\* and no 'Outros' row; in both cases the amounts add up to the table's total.
C16_TopSixPlusOutros ==
    run.op = "_top_n_with_outros"
        => LET out == run.ret
               rows == {arg[i] : i \in 1..Len(arg)}
               kept == {out[k] : k \in 1..6}
           IN  /\ SumValor(out) = SumValor(arg)
               /\ Len(arg) > 6
                     => /\ Len(out) = 7
                        /\ kept \subseteq rows
                        /\ Cardinality(kept) = 6
                        /\ Descending(out, 1, 6)
                        /\ \A r \in rows \ kept : \A q \in kept : r.valor <= q.valor
                        /\ out[7].categoria = "Outros"
                        /\ out[7].valor = SumValor(arg) - SumValor(SubSeq(out, 1, 6))
               /\ Len(arg) <= 6
                     => /\ Len(out) = Len(arg)
                        /\ {out[k] : k \in 1..Len(out)} = rows
                        /\ Descending(out, 1, Len(out))
                        /\ \A k \in 1..Len(out) : out[k].categoria # "Outros"

\* Eight categories, the sixth and seventh amounts tied: two rows are folded
\* into 'Outros'.
C16_Witness ==
    /\ run.op = "_top_n_with_outros"
    /\ Len(arg) = 8
    /\ Len(run.ret) = 7
    /\ run.ret[7].categoria = "Outros"
    /\ run.ret[6].valor = 300
    /\ run.ret[7].valor = 500


\* The row the confirm that has just succeeded stored for the candidate: save()
\* inserts df_novo in order and the candidate is its last row, so it has the
\* greatest id of the owner.
LastConfirmed == CHOOSE r \in History : \A q \in History : q.id <= r.id

\* C17: confirm followed at once by 'desfazer último' is a round trip: whatever
\* the candidate's date, the undo takes away the transaction the confirm added
\* and the history is again what it was before the confirm.
C17_ConfirmUndoRoundTrip ==
    [][(run.op = "confirm" /\ run.raised = "" /\ run'.op = "undo" /\ run'.raised = "")
          => SameHistory(History', History \ {LastConfirmed})]_vars


\* ---------------------------------------------------------------------------
\* Two sessions of one owner run the confirm handler, or one the confirm handler
\* and the other _undo_last, side by side: Streamlit runs each session's script
\* in its own thread, and the database sees their statements one at a time in
\* any order.  A session is [op, cand, pc, stmts]: the handler it runs, its
\* candidate, where it stands, and the statements save() has still to send.
\* The persistence calls are taken to succeed; the load that only feeds the
\* reply of the confirm handler (line 302) writes nothing and is left out.
\* ---------------------------------------------------------------------------

SessionIds == 1..2

\* A transaction of u1 committed before the two sessions act.
PriorRow ==
    [id |-> 2, user_id |-> "u1", data |-> Ordinal(2024, 3, 10), tipo |-> "gasto",
     valor |-> 120000, categoria |-> "Moradia", descricao |-> "paguei 1200 de aluguel",
     created_at |-> 2]

SessionOps == {<<"confirm", "confirm">>, <<"confirm", "undo">>}

ConcInit ==
    /\ \E prior \in {{}, {PriorRow}} :
          /\ db = [table |-> {OtherRow} \cup prior, next_id |-> 3, now |-> 2]
          /\ arg = {Content(r) : r \in prior}
    /\ user_id = "u1"
    /\ today \in Todays
    /\ pending_tx = NoTx
    /\ ref_date = today
    /\ period = "Mês"
    /\ chat_log = <<>>
    /\ run = Observed("init", "", "", 0, None)
    /\ \E ops \in SessionOps, cands \in {b \in InputRows \X InputRows : b[1] # b[2]} :
          sessions = [i \in SessionIds |->
                         [op |-> ops[i], cand |-> cands[i], pc |-> "load", stmts |-> <<>>]]
    /\ client = None

\* data_io.load() of the handler (line 293, or line 186 in _undo_last), and the
\* frame it goes on to save: df_atual plus the candidate, or df.iloc[:-1]; an
\* undo that loads an empty frame returns.
SessionLoad(i) ==
    /\ sessions[i].pc = "load"
    /\ \E df \in LoadResults(db.table, user_id) :
          sessions' =
              [sessions EXCEPT ![i] =
                  IF sessions[i].op = "confirm"
                  THEN [@ EXCEPT !.pc = "save",
                                 !.stmts = SaveStatements(user_id,
                                                          Append(df, sessions[i].cand))]
                  ELSE IF df = <<>>
                  THEN [@ EXCEPT !.pc = "done"]
                  ELSE [@ EXCEPT !.pc = "save",
                                 !.stmts = SaveStatements(user_id, AllButLast(df))]]
    /\ UNCHANGED <<db, user_id, today, pending_tx, ref_date, period, chat_log, run,
                   arg, client>>

\* The next statement of save(): the delete of the owner's rows, then an insert
\* per chunk.
SessionExecute(i) ==
    /\ sessions[i].pc = "save"
    /\ db' = Execute(db, Head(sessions[i].stmts))
    /\ sessions' =
          [sessions EXCEPT ![i] =
              [@ EXCEPT !.stmts = Tail(sessions[i].stmts),
                        !.pc = IF Len(sessions[i].stmts) = 1 THEN "done" ELSE "save"]]
    /\ UNCHANGED <<user_id, today, pending_tx, ref_date, period, chat_log, run,
                   arg, client>>

ConcNext ==
    \/ \E i \in SessionIds : SessionLoad(i)
    \/ \E i \in SessionIds : SessionExecute(i)

ConcSpec == ConcInit /\ [][ConcNext]_vars

\* The candidates of the sessions that confirm.
Confirmed == {sessions[i].cand : i \in {k \in SessionIds : sessions[k].op = "confirm"}}

\* C18: when two sessions of one owner both confirm, or one confirms while the
\* other undoes, then under every interleaving of their loads, deletes and
\* inserts no transaction is stored twice; with two confirms both candidates
\* and every transaction committed before are stored once; with an undo at
\* most the one transaction it removes is missing.
C18_SessionsSerialize ==
    (\A i \in SessionIds : sessions[i].pc = "done")
        => /\ \A c \in arg \cup Confirmed \cup {Content(r) : r \in History} :
                 CountIn(History, c) <= 1
           /\ {Content(r) : r \in History} \subseteq arg \cup Confirmed
           /\ (\A i \in SessionIds : sessions[i].op = "confirm")
                 => \A c \in arg \cup Confirmed : CountIn(History, c) = 1
           /\ (\E i \in SessionIds : sessions[i].op = "undo")
                 => Cardinality({c \in arg \cup Confirmed : CountIn(History, c) = 0}) <= 1


\* ---------------------------------------------------------------------------
\* data_io_supabase with two sessions side by side.  _sb() is cached with
\* st.cache_resource, so every session gets the one client, and `client` is the
\* user token its PostgREST headers carry (None: the key of the project only).
\* A session is [uid, token, op, pc, last_id, sent]: st.session_state of the
\* session, the function it calls, where it stands, the id its select returned,
\* and the token each of its queries went out with.  Every session has a
\* user_id, so each function gets past its test of _uid(); the queries are
\* taken to succeed.
\* ---------------------------------------------------------------------------

SbSessionIds == 1..2

SbOps == {"load", "append_row", "delete_last"}

\* The row a session appends.
SbRow ==
    [data |-> Ordinal(2024, 3, 15), tipo |-> "gasto", valor |-> 5000,
     categoria |-> "Mercado", descricao |-> "gastei 50 no mercado"]

SbInit ==
    /\ db = [table |-> {OtherRow}, next_id |-> 2, now |-> 1]
    /\ user_id = None
    /\ today \in Todays
    /\ pending_tx = NoTx
    /\ ref_date = today
    /\ period = "Mês"
    /\ chat_log = <<>>
    /\ run = Observed("init", "", "", 0, None)
    /\ arg = None
    /\ \E t1 \in {None, "token1"}, t2 \in {None, "token2"}, o1 \in SbOps, o2 \in SbOps :
          sessions =
              <<[uid |-> "u1", token |-> t1, op |-> o1, pc |-> "client",
                 last_id |-> 0, sent |-> <<>>],
                [uid |-> "u2", token |-> t2, op |-> o2, pc |-> "client",
                 last_id |-> 0, sent |-> <<>>]>>
    /\ client = None

\* sb = _client(): the session's token is applied to the shared client when the
\* session has one; when auth() raises, or the session has no token, the client
\* stays as it is.
SessionClient(i) ==
    /\ sessions[i].pc = "client"
    /\ \/ /\ sessions[i].token # None
          /\ client' = sessions[i].token
       \/ client' = client
    /\ sessions' = [sessions EXCEPT ![i] = [@ EXCEPT !.pc = "query"]]
    /\ UNCHANGED <<db, user_id, today, pending_tx, ref_date, period, chat_log, run, arg>>

\* The first execute() of the function, sent with the token the client holds:
\* the select of load, the insert of append_row, the select of delete_last.
SessionQuery(i) ==
    /\ sessions[i].pc = "query"
    /\ \/ /\ sessions[i].op = "load"
          /\ db' = db
          /\ sessions' = [sessions EXCEPT ![i] =
                [@ EXCEPT !.pc = "done", !.sent = Append(@, client)]]
       \/ /\ sessions[i].op = "append_row"
          /\ db' = Execute(db, Insert(<<SbPayload(SbRow, sessions[i].uid)>>))
          /\ sessions' = [sessions EXCEPT ![i] =
                [@ EXCEPT !.pc = "done", !.sent = Append(@, client)]]
       \/ /\ sessions[i].op = "delete_last"
          /\ LastIds(db.table, sessions[i].uid) = {}
          /\ db' = db
          /\ sessions' = [sessions EXCEPT ![i] =
                [@ EXCEPT !.pc = "done", !.sent = Append(@, client)]]
       \/ /\ sessions[i].op = "delete_last"
          /\ db' = db
          /\ \E id \in LastIds(db.table, sessions[i].uid) :
                sessions' = [sessions EXCEPT ![i] =
                    [@ EXCEPT !.pc = "delete", !.last_id = id,
                              !.sent = Append(@, client)]]
    /\ UNCHANGED <<user_id, today, pending_tx, ref_date, period, chat_log, run, arg,
                   client>>

\* The second execute() of delete_last: .delete().eq("id", last_id), on the same
\* client.
SessionDelete(i) ==
    /\ sessions[i].pc = "delete"
    /\ db' = Execute(db, DeleteId(sessions[i].last_id))
    /\ sessions' = [sessions EXCEPT ![i] =
          [@ EXCEPT !.pc = "done", !.sent = Append(@, client)]]
    /\ UNCHANGED <<user_id, today, pending_tx, ref_date, period, chat_log, run, arg,
                   client>>

SbNext ==
    \/ \E i \in SbSessionIds : SessionClient(i)
    \/ \E i \in SbSessionIds : SessionQuery(i)
    \/ \E i \in SbSessionIds : SessionDelete(i)

SbSpec == SbInit /\ [][SbNext]_vars

\* C19: in data_io_supabase every query a session executes goes out with that
\* session's own access token, or with no user token when it has none, and
\* never with a token another session applied, however the sessions' _client()
\* and execute() steps interleave.
C19_OwnTokenOnEveryQuery ==
    \A i \in SbSessionIds :
        \A k \in 1..Len(sessions[i].sent) : sessions[i].sent[k] = sessions[i].token

=============================================================================
